---- MODULE Spec2Model ----
(***************************************************************************)
(* A model of the derive(Demo) procedural macro (src/src/lib.rs).          *)
(*                                                                         *)
(* The macro is a pure function from a parsed type declaration to a token  *)
(* stream (or a panic).  Its functions are modelled as operators computed  *)
(* the way the code computes them; four specifications draw inputs from    *)
(* bounded sets and apply them:                                            *)
(*   SpecSnake  to_snake_case on identifier strings                        *)
(*   SpecField  FieldExt::new / as_arg / as_init on one field              *)
(*   SpecCtor   demo_impl on one struct, then two calls of the constructor *)
(*   Spec       derive on a whole type declaration, step by step           *)
(*                                                                         *)
(* Option<T> is a sequence of length at most one; a computation that may   *)
(* panic returns [ok, err, val] with val = <<v>> when ok.                  *)
(***************************************************************************)
EXTENDS Integers, Sequences, FiniteSets, TLC

VARIABLES
    pc,        \* phase of the specification being run
    s,         \* SpecSnake: the input string (a sequence of characters)
    snake,     \* SpecSnake: to_snake_case(s)
    field,     \* SpecField: the syn::Field under classification, with its position
    fx,        \* SpecField: the result of FieldExt::new (or its panic)
    desc,      \* SpecField: [arg, init] = (as_arg(), as_init()) of fx
    subject,   \* SpecCtor: a struct declaration
    ctor,      \* SpecCtor: the result of demo_impl on subject
    calls,     \* SpecCtor: two calls of the generated constructor
    ast,       \* Spec: the syn::DeriveInput
    options,   \* Spec: DemoOptions
    vi,        \* Spec: index of the next variant demo_for_enum maps
    impls,     \* Spec: the impl blocks produced so far
    output,    \* Spec: the token stream derive returns
    parent_attrs,  \* SpecLint: the attribute list of the subject type
    parent_lints   \* SpecLint: collect_parent_lint_attrs(parent_attrs)

vars == <<pc, s, snake, field, fx, desc, subject, ctor, calls,
          ast, options, vi, impls, output, parent_attrs, parent_lints>>

snakeVars == <<s, snake>>
fieldVars == <<field, fx, desc>>
ctorVars == <<subject, ctor, calls>>
deriveVars == <<ast, options, vi, impls, output>>
lintVars == <<parent_attrs, parent_lints>>

\* ------------------------------------------------------------------ bounds

MaxLen == 4        \* longest string drawn exhaustively for to_snake_case
MaxAttrs == 2      \* most attributes on one field
MaxFields == 3     \* most fields of one struct
MaxTypeAttrs == 2  \* most attributes on the subject type
MaxVariants == 2   \* most variants of an enum
MaxOptions == 2    \* most options listed in one wrapper of a field

\* ------------------------------------------------------------- generic helpers

None == <<>>
Some(x) == <<x>>
IsSome(o) == Len(o) = 1
IsNone(o) == Len(o) = 0
Unwrap(o) == o[1]

Ok(v) == [ok |-> TRUE, err |-> "", val |-> <<v>>]
Panic(msg) == [ok |-> FALSE, err |-> msg, val |-> <<>>]

\* all sequences over S of length at most n
RECURSIVE SeqsUpTo(_, _)
SeqsUpTo(S, n) ==
    IF n = 0 THEN {<<>>}
    ELSE LET shorter == SeqsUpTo(S, n - 1)
         IN  shorter \cup {Append(q, x) : q \in {r \in shorter : Len(r) = n - 1}, x \in S}

RECURSIVE Concat(_)
Concat(ss) == IF ss = <<>> THEN <<>> ELSE Head(ss) \o Concat(Tail(ss))

Last(q) == q[Len(q)]

\* ------------------------------------------------------------- characters

UpperLetters == <<"A","B","C","D","E","F","G","H","I","J","K","L","M",
                  "N","O","P","Q","R","S","T","U","V","W","X","Y","Z">>
LowerLetters == <<"a","b","c","d","e","f","g","h","i","j","k","l","m",
                  "n","o","p","q","r","s","t","u","v","w","x","y","z">>
Digits == {"0","1","2","3","4","5","6","7","8","9"}

\* char::is_uppercase, char::is_lowercase, char::is_numeric, char::to_lowercase
\* on the ASCII letters, digits and underscore
is_uppercase(c) == \E i \in 1..Len(UpperLetters) : UpperLetters[i] = c
is_lowercase(c) == \E i \in 1..Len(LowerLetters) : LowerLetters[i] = c
is_numeric(c) == c \in Digits
to_lowercase(c) ==
    IF is_uppercase(c)
    THEN LowerLetters[CHOOSE i \in 1..Len(UpperLetters) : UpperLetters[i] = c]
    ELSE c

\* ------------------------------------------------------------- to_snake_case

\* the closure without the test of the next character
SnakeFoldNoLookahead(st, next) ==
    LET acc1 ==
          IF IsSome(st.ch)
          THEN LET ch == Unwrap(st.ch)
                   sep == /\ IsSome(st.prev)
                          /\ is_uppercase(ch)
                          /\ \/ is_lowercase(Unwrap(st.prev))
                             \/ is_numeric(Unwrap(st.prev))
               IN  (IF sep THEN Append(st.acc, "_") ELSE st.acc) \o <<to_lowercase(ch)>>
          ELSE st.acc
    IN  [prev |-> st.ch, ch |-> Some(next), acc |-> acc1]

\* the closure folded over s.chars(): state (prev, ch, acc), element next
SnakeFold(st, next) ==
    LET acc1 ==
          IF IsSome(st.ch)
          THEN LET ch == Unwrap(st.ch)
                   sep == /\ IsSome(st.prev)
                          /\ is_uppercase(ch)
                          /\ \/ is_lowercase(Unwrap(st.prev))
                             \/ is_numeric(Unwrap(st.prev))
                             \/ (is_uppercase(Unwrap(st.prev)) /\ is_lowercase(next))
               IN  (IF sep THEN Append(st.acc, "_") ELSE st.acc) \o <<to_lowercase(ch)>>
          ELSE st.acc
    IN  [prev |-> st.ch, ch |-> Some(next), acc |-> acc1]

RECURSIVE SnakeFoldAll(_, _)
SnakeFoldAll(st, rest) ==
    IF rest = <<>> THEN st ELSE SnakeFoldAll(SnakeFold(st, Head(rest)), Tail(rest))

to_snake_case(str) ==
    LET fin == SnakeFoldAll([prev |-> None, ch |-> None, acc |-> <<>>], str)
        \* the fold's result is bound as (ch, next, acc)
        ch == fin.prev
        next == fin.ch
    IN  IF IsSome(next)
        THEN LET sep == /\ IsSome(ch)
                        /\ is_lowercase(Unwrap(ch)) \/ is_numeric(Unwrap(ch))
                        /\ is_uppercase(Unwrap(next))
             IN  (IF sep THEN Append(fin.acc, "_") ELSE fin.acc)
                   \o <<to_lowercase(Unwrap(next))>>
        ELSE fin.acc

\* the strings of test_to_snake_case, as (input, expected) pairs
SnakeTable == {
    << <<>>, <<>> >>,
    << <<"a">>, <<"a">> >>,
    << <<"B">>, <<"b">> >>,
    << <<"B","C">>, <<"b","c">> >>,
    << <<"B","c">>, <<"b","c">> >>,
    << <<"b","C">>, <<"b","_","c">> >>,
    << <<"F","r","e","d">>, <<"f","r","e","d">> >>,
    << <<"C","A","R","G","O">>, <<"c","a","r","g","o">> >>,
    << <<"_","H","e","l","l","o">>, <<"_","h","e","l","l","o">> >>,
    << <<"Q","u","x","B","a","z">>, <<"q","u","x","_","b","a","z">> >>,
    << <<"F","r","e","e","B","S","D">>, <<"f","r","e","e","_","b","s","d">> >>,
    << <<"s","p","e","c","i","a","l","K">>, <<"s","p","e","c","i","a","l","_","k">> >>,
    << <<"h","e","l","l","o","1","W","o","r","l","d">>,
       <<"h","e","l","l","o","1","_","w","o","r","l","d">> >>,
    << <<"K","e","e","p","_","u","n","d","e","r","s","c","o","r","e">>,
       <<"k","e","e","p","_","u","n","d","e","r","s","c","o","r","e">> >>,
    << <<"T","h","i","s","I","S","N","o","t","A","D","r","i","l","l">>,
       <<"t","h","i","s","_","i","s","_","n","o","t","_","a","_","d","r","i","l","l">> >> }

\* ------------------------------------------------------------- attributes

\* syn::Meta inside a wrapper's argument list.  For a name-value, lit is "Str" for
\* a string literal value, "Int" for another literal and "Expr" for an expression
\* that is no literal; payload is the value's text.
MetaPath(id) == [m |-> "Path", id |-> id, lit |-> "", payload |-> ""]
MetaNameValue(id, lit, payload) == [m |-> "NameValue", id |-> id, lit |-> lit, payload |-> payload]
MetaList(id) == [m |-> "List", id |-> id, lit |-> "", payload |-> ""]

\* syn::Attribute: its path, the form of its meta, and for a list its arguments
\* (parses = FALSE when the arguments are no comma-separated list of metas)
ListAttr(path, args) == [path |-> path, meta |-> "List", args |-> args, parses |-> TRUE]
BadListAttr(path) == [path |-> path, meta |-> "List", args |-> <<>>, parses |-> FALSE]
PathAttr(path) == [path |-> path, meta |-> "Path", args |-> <<>>, parses |-> TRUE]
DemoAttr(args) == ListAttr(<<"Demo">>, args)

\* proc_macro2's lexer on the payload strings the model draws: an unbalanced
\* delimiter is a LexError, everything else a token sequence
lit_str_to_token_stream(payload) ==
    IF payload = "(" THEN Panic("LexError")
    ELSE Ok(CASE payload = "1 + 2" -> <<"1", "+", "2">>
              [] payload = "" -> <<>>
              [] OTHER -> <<payload>>)

\* enum FieldAttr
FieldAttrDefault == [k |-> "Default", tokens |-> <<>>]
FieldAttrInto == [k |-> "Into", tokens |-> <<>>]
FieldAttrIntoIter(ts) == [k |-> "IntoIter", tokens |-> ts]
FieldAttrValue(ts) == [k |-> "Value", tokens |-> ts]

\* the body of the loop over a wrapper's items: the new value of result, or a panic
ParseItem(item) ==
    CASE item.m = "Path" ->
           IF item.id = "default" THEN Ok(Some(FieldAttrDefault))
           ELSE IF item.id = "into" THEN Ok(Some(FieldAttrInto))
           ELSE Panic("Invalid #[Demo] attribute: #[Demo(..)]")
      [] item.m = "NameValue" ->
           IF item.lit = "Str"
           THEN LET tokens == lit_str_to_token_stream(item.payload)
                IN  IF ~tokens.ok THEN Panic("Invalid expression in #[Demo]")
                    ELSE IF item.id = "into_iter"
                         THEN Ok(Some(FieldAttrIntoIter(Unwrap(tokens.val))))
                    ELSE IF item.id = "value"
                         THEN Ok(Some(FieldAttrValue(Unwrap(tokens.val))))
                    ELSE Panic("Invalid #[Demo] attribute: #[Demo(.. = ..)]")
           ELSE Panic("Non-string literal value in #[Demo] attribute")
      [] item.m = "List" -> Panic("Invalid #[Demo] attribute: #[Demo(..(..))]")

\* the loop over a wrapper's items with the first option kept
RECURSIVE ParseItems_FirstWins(_, _)
ParseItems_FirstWins(items, result) ==
    IF items = <<>> THEN Ok(result)
    ELSE LET r == ParseItem(Head(items))
         IN  IF r.ok
             THEN ParseItems_FirstWins(Tail(items),
                                       IF IsSome(result) THEN result ELSE Unwrap(r.val))
             ELSE r

RECURSIVE ParseItems(_, _)
ParseItems(items, result) ==
    IF items = <<>> THEN Ok(result)
    ELSE LET r == ParseItem(Head(items))
         IN  IF r.ok THEN ParseItems(Tail(items), Unwrap(r.val)) ELSE r

\* the loop of FieldAttr::parse over the field's attributes, result as accumulated
RECURSIVE ParseAttrs(_, _)
ParseAttrs(attrs, result) ==
    IF attrs = <<>> THEN Ok(result)
    ELSE LET attr == Head(attrs)
         IN  IF Last(attr.path) # "Demo" THEN ParseAttrs(Tail(attrs), result)
             ELSE IF attr.meta # "List"
                  THEN IF attr.path = <<"Demo">>
                       THEN Panic("Invalid #[Demo] attribute, expected #[Demo(..)]")
                       ELSE ParseAttrs(Tail(attrs), result)
             ELSE IF IsSome(result) THEN Panic("Expected at most one #[Demo] attribute")
             ELSE IF ~attr.parses THEN Panic("Invalid #[Demo] attribute")
             ELSE LET r == ParseItems(attr.args, result)
                  IN  IF r.ok THEN ParseAttrs(Tail(attrs), Unwrap(r.val)) ELSE r

\* FieldAttr::parse: Option<FieldAttr>, or a panic
FieldAttr_parse(attrs) == ParseAttrs(attrs, None)

\* ------------------------------------------------------------- fields

\* syn::Type, as far as is_phantom_data inspects it
TypePath(segments) == [kind |-> "Path", qself |-> FALSE, segments |-> segments]
TypeQSelf(segments) == [kind |-> "Path", qself |-> TRUE, segments |-> segments]
TypeReference == [kind |-> "Reference", qself |-> FALSE, segments |-> <<>>]

TyI32 == TypePath(<<"i32">>)
TyPhantom == TypePath(<<"PhantomData">>)
TyStdPhantom == TypePath(<<"std", "marker", "PhantomData">>)

\* syn::Field: ident is Some for a named field
Field(ident, ty, attrs) == [ident |-> ident, ty |-> ty, attrs |-> attrs]

\* the struct literal of FieldExt::new, attr being the outcome of FieldAttr::parse
FieldExtOf(f, idx, named, attr) ==
    IF ~attr.ok THEN attr
    ELSE Ok([ty |-> f.ty,
             attr |-> Unwrap(attr.val),
             ident |-> IF named THEN Unwrap(f.ident) ELSE "f" \o ToString(idx),
             named |-> named])

FieldExt_new(f, idx, named) == FieldExtOf(f, idx, named, FieldAttr_parse(f.attrs))

FieldExt_is_phantom_data(self) ==
    IF self.ty.kind = "Path" /\ ~self.ty.qself
    THEN IF self.ty.segments = <<>> THEN FALSE
         ELSE Last(self.ty.segments) = "PhantomData"
    ELSE FALSE

\* a generated parameter `ident: <type>`; k is "Exact" (the declared type),
\* "ImplInto" (impl Into<ty>) or "ImplIntoIterator" (impl IntoIterator<Item = item>)
Arg(ident, k, ty, item) == [ident |-> ident, k |-> k, ty |-> ty, item |-> item]

\* as_arg with the Into arm returning None
FieldExt_as_arg_IntoOmitted(self) ==
    IF FieldExt_is_phantom_data(self) THEN None
    ELSE IF IsNone(self.attr) THEN Some(Arg(self.ident, "Exact", self.ty, <<>>))
    ELSE LET a == Unwrap(self.attr)
         IN  CASE a.k = "Default" -> None
               [] a.k = "Into" -> None
               [] a.k = "IntoIter" -> Some(Arg(self.ident, "ImplIntoIterator", self.ty, a.tokens))
               [] a.k = "Value" -> None

FieldExt_as_arg(self) ==
    IF FieldExt_is_phantom_data(self) THEN None
    ELSE IF IsNone(self.attr) THEN Some(Arg(self.ident, "Exact", self.ty, <<>>))
    ELSE LET a == Unwrap(self.attr)
         IN  CASE a.k = "Default" -> None
               [] a.k = "Into" -> Some(Arg(self.ident, "ImplInto", self.ty, <<>>))
               [] a.k = "IntoIter" -> Some(Arg(self.ident, "ImplIntoIterator", self.ty, a.tokens))
               [] a.k = "Value" -> None

\* an initializer expression: k is "Param" (the parameter itself), "Default"
\* (Default::default()), "Into" (Into::into(id)), "Collect"
\* (Iterator::collect(IntoIterator::into_iter(id))), "Splice" (the tokens of a
\* value expression) or "PhantomData"
Expr(k, id, tokens) == [k |-> k, id |-> id, tokens |-> tokens]

\* as_tokens with the Value arm returning the field's name instead of the expression
FieldAttr_as_tokens_ValueAsName(self, name) ==
    CASE self.k = "Default" -> Expr("Default", "", <<>>)
      [] self.k = "Into" -> Expr("Into", name, <<>>)
      [] self.k = "IntoIter" -> Expr("Collect", name, <<>>)
      [] self.k = "Value" -> Expr("Param", name, <<>>)

FieldAttr_as_tokens(self, name) ==
    CASE self.k = "Default" -> Expr("Default", "", <<>>)
      [] self.k = "Into" -> Expr("Into", name, <<>>)
      [] self.k = "IntoIter" -> Expr("Collect", name, <<>>)
      [] self.k = "Value" -> Expr("Splice", "", self.tokens)

\* as_init with an unconfigured field initialized to its default
FieldExt_as_init_DefaultsPlain(self) ==
    LET init == IF FieldExt_is_phantom_data(self) THEN Expr("PhantomData", "", <<>>)
                ELSE IF IsNone(self.attr) THEN Expr("Default", "", <<>>)
                ELSE FieldAttr_as_tokens(Unwrap(self.attr), self.ident)
    IN  [label |-> IF self.named THEN Some(self.ident) ELSE None, init |-> init]

\* an initializer as emitted: label is Some(ident) for `ident: init`
FieldExt_as_init(self) ==
    LET init == IF FieldExt_is_phantom_data(self) THEN Expr("PhantomData", "", <<>>)
                ELSE IF IsNone(self.attr) THEN Expr("Param", self.ident, <<>>)
                ELSE FieldAttr_as_tokens(Unwrap(self.attr), self.ident)
    IN  [label |-> IF self.named THEN Some(self.ident) ELSE None, init |-> init]

\* ------------------------------------------------------------- type-level options

\* syn's parse of a string literal's content as a Visibility: `pub`, `pub(crate)`
\* and the empty string (inherited, that is no qualifier) parse; other text does not
ParseVisibility(payload) ==
    CASE payload = "pub" -> Ok("pub")
      [] payload = "pub(crate)" -> Ok("pub(crate)")
      [] payload = "" -> Ok("inherited")
      [] OTHER -> Panic("Invalid visibility")

\* the closure handed to parse_nested_meta, run on the wrapper's entries in order:
\* the visibility assigned so far, up to the first entry the closure returns Err
\* for, and whether the closure panicked
RECURSIVE NestedMeta(_, _)
NestedMeta(items, visibility) ==
    IF items = <<>> THEN [panic |-> FALSE, visibility |-> visibility]
    ELSE LET meta == Head(items)
         IN  IF meta.id = "visibility"
             THEN IF meta.m # "NameValue" \/ meta.lit = "Expr"
                  THEN [panic |-> FALSE, visibility |-> visibility]
                  ELSE IF meta.lit = "Str"
                       THEN LET parsed == ParseVisibility(meta.payload)
                            IN  IF parsed.ok
                                THEN NestedMeta(Tail(items), Some(Unwrap(parsed.val)))
                                ELSE [panic |-> TRUE, visibility |-> visibility]
                       ELSE NestedMeta(Tail(items), visibility)
             ELSE [panic |-> FALSE, visibility |-> visibility]

RECURSIVE OptionsLoop(_, _)
OptionsLoop(attrs, visibility) ==
    IF attrs = <<>> THEN Ok([visibility |-> visibility])
    ELSE LET attr == Head(attrs)
         IN  IF attr.path = <<"Demo">>
             THEN IF attr.meta = "List" /\ attr.parses
                  THEN LET r == NestedMeta(attr.args, visibility)
                       IN  IF r.panic THEN Panic("Invalid visibility")
                           ELSE OptionsLoop(Tail(attrs), r.visibility)
                  ELSE OptionsLoop(Tail(attrs), visibility)
             ELSE OptionsLoop(Tail(attrs), visibility)

\* DemoOptions::from_attributes: the default visibility is public
DemoOptions_from_attributes(attrs) == OptionsLoop(attrs, Some("pub"))

\* ------------------------------------------------------------- lint attributes

LintNames == {"allow", "deny", "forbid", "warn"}

is_lint(item) == item.m = "List" /\ item.id \in LintNames

\* the same test on an attribute's own meta
is_lint_attr(attr) ==
    attr.meta = "List" /\ Len(attr.path) = 1 /\ attr.path[1] \in LintNames

\* the wrapper test without the count of its arguments
is_cfg_attr_lint_AnyLength(attr) ==
    IF attr.meta = "List" /\ attr.path = <<"cfg_attr">> /\ attr.parses
    THEN Len(attr.args) >= 2 /\ is_lint(attr.args[2])
    ELSE FALSE

is_cfg_attr_lint(attr) ==
    IF attr.meta = "List" /\ attr.path = <<"cfg_attr">> /\ attr.parses
    THEN Len(attr.args) = 2 /\ is_lint(attr.args[2])
    ELSE FALSE

collect_parent_lint_attrs(attrs) ==
    SelectSeq(attrs, LAMBDA a : is_lint_attr(a) \/ is_cfg_attr_lint(a))

\* the `,` that quote's #(...),* puts between repetitions
Comma == [path |-> <<",">>, meta |-> "Punct", args |-> <<>>, parses |-> TRUE]

\* #(#x),* : the elements, comma-separated
RECURSIVE CommaSeparated(_)
CommaSeparated(xs) ==
    IF Len(xs) <= 1 THEN xs
    ELSE <<Head(xs), Comma>> \o CommaSeparated(Tail(xs))

\* ------------------------------------------------------------- demo_impl

DemoChars == <<"d", "e", "m", "o">>

\* fields.iter().enumerate().map(|(i, f)| FieldExt::new(f, i, named)).collect():
\* the first panic ends it
RECURSIVE CollectFields(_, _, _, _)
CollectFields(fields, i, named, acc) ==
    IF i > Len(fields) THEN Ok(acc)
    ELSE LET r == FieldExt_new(fields[i], i - 1, named)
         IN  IF r.ok THEN CollectFields(fields, i + 1, named, Append(acc, Unwrap(r.val)))
             ELSE r

\* the arguments collected in reverse
FilterMapArgsReversed(fxs) ==
    LET kept == SelectSeq(fxs, LAMBDA f : IsSome(FieldExt_as_arg(f)))
    IN  [i \in 1..Len(kept) |-> Unwrap(FieldExt_as_arg(kept[Len(kept) + 1 - i]))]

\* fields.iter().filter_map(|f| f.as_arg())
FilterMapArgs(fxs) ==
    LET kept == SelectSeq(fxs, LAMBDA f : IsSome(FieldExt_as_arg(f)))
    IN  [i \in 1..Len(kept) |-> Unwrap(FieldExt_as_arg(kept[i]))]

\* the name built from the variant's name as declared
DemoIdentNoConversion(variant) ==
    IF IsNone(variant) THEN DemoChars
    ELSE DemoChars \o <<"_">> \o Unwrap(variant)

\* the function's name: `demo`, or `demo_` and the snake-cased variant name
DemoIdent(variant) ==
    IF IsNone(variant) THEN DemoChars
    ELSE DemoChars \o <<"_">> \o to_snake_case(Unwrap(variant))

\* demo_impl: the impl block with the one constructor
\*   impl <name> { #[doc] <lint_attrs> <visibility> fn <demo>(<args>) -> Self
\*                 { <name> <qual> <inits> } }
\* fields is None for a unit shape; delim is how the initializers are wrapped;
\* fxs is the collected Vec<FieldExt>, or the panic of a FieldExt::new
QuoteImpl(name, type_attrs, unit, named, variant, opts, fxs) ==
    IF ~fxs.ok THEN fxs
    ELSE Ok([ty |-> name,
             doc |-> [ty |-> name, variant |-> variant],
             lint_attrs |-> CommaSeparated(collect_parent_lint_attrs(type_attrs)),
             visibility |-> opts.visibility,
             demo |-> DemoIdent(variant),
             args |-> FilterMapArgs(Unwrap(fxs.val)),
             qual |-> variant,
             delim |-> IF unit THEN "None" ELSE IF named THEN "Brace" ELSE "Paren",
             inits |-> IF unit THEN <<>>
                       ELSE [i \in 1..Len(Unwrap(fxs.val)) |->
                               FieldExt_as_init(Unwrap(fxs.val)[i])]])

demo_impl(name, type_attrs, fields, named, variant, opts) ==
    QuoteImpl(name, type_attrs, IsNone(fields), named, variant, opts,
              CollectFields(IF IsNone(fields) THEN <<>> ELSE Unwrap(fields), 1, named, <<>>))

\* syn::Fields: "Named", "Unnamed" or "Unit", with the fields
Fields(kind, fields) == [kind |-> kind, fields |-> fields]

\* demo_for_struct with a shape of zero fields taken for the unit shape
demo_for_struct_EmptyIsUnit(name, type_attrs, fields, variant, opts) ==
    CASE fields.kind = "Named" /\ fields.fields # <<>> ->
           demo_impl(name, type_attrs, Some(fields.fields), TRUE, variant, opts)
      [] fields.kind = "Unnamed" /\ fields.fields # <<>> ->
           demo_impl(name, type_attrs, Some(fields.fields), FALSE, variant, opts)
      [] OTHER ->
           demo_impl(name, type_attrs, None, FALSE, variant, opts)

demo_for_struct(name, type_attrs, fields, variant, opts) ==
    CASE fields.kind = "Named" ->
           demo_impl(name, type_attrs, Some(fields.fields), TRUE, variant, opts)
      [] fields.kind = "Unit" ->
           demo_impl(name, type_attrs, None, FALSE, variant, opts)
      [] fields.kind = "Unnamed" ->
           demo_impl(name, type_attrs, Some(fields.fields), FALSE, variant, opts)

\* ------------------------------------------------------------- calling a constructor

\* run-time values: an argument value n, what conversions make of it, the default
\* value and the marker
Val(n) == [tag |-> "val", n |-> n]
IntoVal(v) == [tag |-> "into", n |-> v.n]
CollectVal(v) == [tag |-> "collect", n |-> v.n]
DefaultVal == [tag |-> "default", n |-> 0]
MarkerVal == [tag |-> "PhantomData", n |-> 0]
Unresolved == [tag |-> "unresolved", n |-> 0]

ArgIndex(impl, id) == {i \in 1..Len(impl.args) : impl.args[i].ident = id}

\* the value of a parameter in a call with the given argument values
ParamVal(impl, argv, id) ==
    IF ArgIndex(impl, id) = {} THEN Unresolved
    ELSE argv[CHOOSE i \in ArgIndex(impl, id) : TRUE]

\* the value of a spliced expression in the function body, where the parameters
\* are in scope: `1 + 2` is 3, an identifier is the parameter of that name (and
\* an unresolved name when there is none)
EvalTokens(impl, argv, tokens) ==
    IF tokens = <<"1", "+", "2">> THEN Val(3)
    ELSE IF Len(tokens) = 1 THEN ParamVal(impl, argv, tokens[1])
    ELSE Unresolved

EvalInit(impl, argv, init) ==
    CASE init.k = "Param" -> ParamVal(impl, argv, init.id)
      [] init.k = "Default" -> DefaultVal
      [] init.k = "Into" -> IntoVal(ParamVal(impl, argv, init.id))
      [] init.k = "Collect" -> CollectVal(ParamVal(impl, argv, init.id))
      [] init.k = "Splice" -> EvalTokens(impl, argv, init.tokens)
      [] init.k = "PhantomData" -> MarkerVal

\* the value constructed by <name>::<demo>(argv): one value per field
CallCtor(impl, argv) == [i \in 1..Len(impl.inits) |-> EvalInit(impl, argv, impl.inits[i].init)]

\* the host compiler accepts the body when every name in it resolves
Compiles(impl) ==
    \A i \in 1..Len(impl.inits) :
        impl.inits[i].init.k = "Splice" /\ Len(impl.inits[i].init.tokens) = 1 =>
            ArgIndex(impl, impl.inits[i].init.tokens[1]) # {}

\* ------------------------------------------------------------- SpecSnake

\* the alphabet strings are drawn from: two lowercase and two uppercase letters,
\* a digit and the underscore
Alphabet == {"a", "b", "B", "C", "1", "_"}
SnakeInputs == SeqsUpTo(Alphabet, MaxLen) \cup {p[1] : p \in SnakeTable}

SnakeIdle ==
    /\ s = <<>>
    /\ snake = <<>>
FieldIdle ==
    /\ field = <<>>
    /\ fx = <<>>
    /\ desc = <<>>
CtorIdle ==
    /\ subject = <<>>
    /\ ctor = <<>>
    /\ calls = <<>>
DeriveIdle ==
    /\ ast = <<>>
    /\ options = <<>>
    /\ vi = 0
    /\ impls = <<>>
    /\ output = <<>>

LintIdle ==
    /\ parent_attrs = <<>>
    /\ parent_lints = <<>>

InitSnake ==
    /\ pc = "snake_input"
    /\ s \in SnakeInputs
    /\ snake = <<>>
    /\ FieldIdle /\ CtorIdle /\ DeriveIdle /\ LintIdle

ApplySnake ==
    /\ pc = "snake_input"
    /\ snake' = to_snake_case(s)
    /\ pc' = "snake_done"
    /\ UNCHANGED <<s, fieldVars, ctorVars, deriveVars, lintVars>>

NextSnake == ApplySnake

SpecSnake == InitSnake /\ [][NextSnake]_vars

\* ------------------------------------------------------------- C9

\* the rule of the claim, position by position: a separator goes before s[i]
\* exactly when s[i] is uppercase and its predecessor is lowercase, or numeric,
\* or uppercase with a lowercase successor
SepBefore(str, i) ==
    /\ is_uppercase(str[i])
    /\ i > 1
    /\ \/ is_lowercase(str[i - 1])
       \/ is_numeric(str[i - 1])
       \/ (is_uppercase(str[i - 1]) /\ i < Len(str) /\ is_lowercase(str[i + 1]))

SnakeByRule(str) ==
    Concat([i \in 1..Len(str) |->
              (IF SepBefore(str, i) THEN <<"_">> ELSE <<>>) \o <<to_lowercase(str[i])>>])

IsSnakeCase(str) == \A i \in 1..Len(str) : ~is_uppercase(str[i])

\* C9: to_snake_case lowercases every character and inserts an underscore before
\* a character exactly when the rule SepBefore says so (never before the first
\* character, never next to an underscore); it satisfies the literal table of
\* test_to_snake_case and maps snake-case input to itself.
C9_SnakeCaseRule ==
    pc = "snake_done" =>
        /\ snake = SnakeByRule(s)
        /\ \A p \in SnakeTable : s = p[1] => snake = p[2]
        /\ IsSnakeCase(s) => snake = s
        /\ \A i \in 1..Len(s) :
              SepBefore(s, i) => /\ s[i - 1] # "_"
                                 /\ s[i] # "_"

\* an acronym run followed by a lowercase letter has been converted, with a
\* separator before the last uppercase letter of the run
C9_Witness ==
    /\ pc = "snake_done"
    /\ s = <<"a", "B", "C", "b">>
    /\ snake = <<"a", "_", "b", "_", "c", "b">>

\* ------------------------------------------------------------- SpecField

\* the options a wrapper on a field is drawn from: the four valid ones, and one
\* of each malformed kind (unknown marker, unknown key, list-valued entry,
\* non-string-literal value, string that does not lex)
ValidFieldItems == {MetaPath("default"), MetaPath("into"),
                    MetaNameValue("into_iter", "Str", "bool"),
                    MetaNameValue("value", "Str", "1 + 2")}
InvalidFieldItems == {MetaPath("foo"), MetaNameValue("foo", "Str", "1 + 2"),
                      MetaList("default"), MetaNameValue("value", "Int", "5"),
                      MetaNameValue("value", "Str", "(")}
FieldItems == ValidFieldItems \cup InvalidFieldItems

\* option lists: any single option, and every list of at most MaxOptions valid
\* options (the empty list included)
FieldWrappers ==
    {<<i>> : i \in FieldItems} \cup SeqsUpTo(ValidFieldItems, MaxOptions)

\* attributes a field may carry: #[Demo(..)], #[Demo(<not a meta list>)], a bare
\* #[Demo], and an attribute of another name
AllowAttr == ListAttr(<<"allow">>, <<MetaPath("missing_docs")>>)
FieldAttributes ==
    {DemoAttr(w) : w \in FieldWrappers}
      \cup {BadListAttr(<<"Demo">>), PathAttr(<<"Demo">>), AllowAttr}

\* attributes that are combined on one field: an empty wrapper, a valid option
\* of each parameter behaviour, an unknown option, and a foreign attribute
CoreAttributes ==
    {DemoAttr(<<>>), DemoAttr(<<MetaPath("default")>>), DemoAttr(<<MetaPath("into")>>),
     DemoAttr(<<MetaPath("foo")>>), AllowAttr}

\* attribute lists of a field: any single attribute, and every list of at most
\* MaxAttrs core attributes
FieldAttrLists ==
    {<<a>> : a \in FieldAttributes} \cup SeqsUpTo(CoreAttributes, MaxAttrs)

TyQSelfPhantom == TypeQSelf(<<"Tr", "PhantomData">>)
FieldTypes == {TyI32, TypeReference, TyQSelfPhantom, TyPhantom, TyStdPhantom}

\* a field as demo_impl hands it to FieldExt::new: a named field `x` or the
\* second field of a tuple
FieldInputs ==
    {[f |-> Field(Some("x"), ty, attrs), idx |-> 0, named |-> TRUE] :
        ty \in FieldTypes, attrs \in FieldAttrLists}
      \cup
    {[f |-> Field(None, ty, attrs), idx |-> 1, named |-> FALSE] :
        ty \in FieldTypes, attrs \in FieldAttrLists}

InitField ==
    /\ pc = "field_input"
    /\ field \in FieldInputs
    /\ fx = <<>>
    /\ desc = <<>>
    /\ SnakeIdle /\ CtorIdle /\ DeriveIdle /\ LintIdle

\* .map(|(i, f)| FieldExt::new(f, i, named))
NewField ==
    /\ pc = "field_input"
    /\ fx' = FieldExt_new(field.f, field.idx, field.named)
    /\ pc' = "field_new"
    /\ UNCHANGED <<field, desc, snakeVars, ctorVars, deriveVars, lintVars>>

\* f.as_arg() and f.as_init() of a field that was constructed
ClassifyField ==
    /\ pc = "field_new"
    /\ fx.ok
    /\ desc' = [arg |-> FieldExt_as_arg(Unwrap(fx.val)),
                init |-> FieldExt_as_init(Unwrap(fx.val))]
    /\ pc' = "field_classified"
    /\ UNCHANGED <<field, fx, snakeVars, ctorVars, deriveVars, lintVars>>

NextField == NewField \/ ClassifyField

SpecField == InitField /\ [][NextField]_vars

\* the declared type is the placeholder marker (PhantomData, under any path)
IsMarkerType(ty) == ty \in {TyPhantom, TyStdPhantom}

\* the Demo(...) wrapper attributes among attrs
IsDemoWrapper(attr) == attr.path = <<"Demo">> /\ attr.meta = "List"
DemoWrappers(attrs) == SelectSeq(attrs, IsDemoWrapper)

\* the FieldConfig a single valid option stands for
ConfigKindOf(item) ==
    CASE item = MetaPath("default") -> "Default"
      [] item = MetaPath("into") -> "Into"
      [] item.m = "NameValue" /\ item.id = "into_iter" -> "IntoIter"
      [] item.m = "NameValue" /\ item.id = "value" -> "Value"

\* ------------------------------------------------------------- SpecCtor

\* names of the fields of a named struct, by position
FieldNames == <<"a", "b", "c", "d", "e">>

\* what a field of the struct is drawn from, as <<type, attributes>>: a plain
\* field, one of each valid configuration, a value expression naming the first
\* field's parameter (ref), and an unconfigured placeholder marker
CtorFieldKinds(ref) ==
    {<<TyI32, <<>> >>,
     <<TyI32, <<DemoAttr(<<MetaPath("default")>>)>> >>,
     <<TyI32, <<DemoAttr(<<MetaPath("into")>>)>> >>,
     <<TyI32, <<DemoAttr(<<MetaNameValue("into_iter", "Str", "bool")>>)>> >>,
     <<TyI32, <<DemoAttr(<<MetaNameValue("value", "Str", "1 + 2")>>)>> >>,
     <<TyI32, <<DemoAttr(<<MetaNameValue("value", "Str", ref)>>)>> >>,
     <<TyPhantom, <<>> >>}

NamedFields(kinds) ==
    Fields("Named", [i \in 1..Len(kinds) |-> Field(Some(FieldNames[i]), kinds[i][1], kinds[i][2])])
UnnamedFields(kinds) ==
    Fields("Unnamed", [i \in 1..Len(kinds) |-> Field(None, kinds[i][1], kinds[i][2])])

Subjects ==
    {[name |-> "S", fields |-> NamedFields(k)] : k \in SeqsUpTo(CtorFieldKinds("a"), MaxFields)}
      \cup
    {[name |-> "S", fields |-> UnnamedFields(k)] : k \in SeqsUpTo(CtorFieldKinds("f0"), MaxFields)}
      \cup
    {[name |-> "S", fields |-> Fields("Unit", <<>>)]}

\* argument values a call passes
ArgValues == {Val(1), Val(2)}

InitCtor ==
    /\ pc = "ctor_input"
    /\ subject \in Subjects
    /\ ctor = <<>>
    /\ calls = <<>>
    /\ SnakeIdle /\ FieldIdle /\ DeriveIdle /\ LintIdle

\* demo_for_struct(&ast, &s.fields, None, &options) for a struct without type attributes
GenerateCtor ==
    /\ pc = "ctor_input"
    /\ ctor' = demo_for_struct(subject.name, <<>>, subject.fields, None,
                               Unwrap(DemoOptions_from_attributes(<<>>).val))
    /\ pc' = "ctor_generated"
    /\ UNCHANGED <<subject, calls, snakeVars, fieldVars, deriveVars, lintVars>>

\* two calls S::demo(a1), S::demo(a2) of a constructor the host compiler accepts
CallTwice ==
    /\ pc = "ctor_generated"
    /\ ctor.ok
    /\ Compiles(Unwrap(ctor.val))
    /\ LET impl == Unwrap(ctor.val)
           n == Len(impl.args)
       IN  \E a1 \in [1..n -> ArgValues], a2 \in [1..n -> ArgValues] :
               calls' = [a1 |-> a1, a2 |-> a2,
                         r1 |-> CallCtor(impl, a1), r2 |-> CallCtor(impl, a2)]
    /\ pc' = "ctor_called"
    /\ UNCHANGED <<subject, ctor, snakeVars, fieldVars, deriveVars, lintVars>>

NextCtor == GenerateCtor \/ CallTwice

SpecCtor == InitCtor /\ [][NextCtor]_vars

\* the declared fields of the subject, and what the declaration says of field i
SubjectFields == subject.fields.fields
NFields == Len(SubjectFields)
DeclaredIdent(i) ==
    IF subject.fields.kind = "Named" THEN FieldNames[i] ELSE "f" \o ToString(i - 1)
IsMarkerField(i) == IsMarkerType(SubjectFields[i].ty)
Unconfigured(i) == SubjectFields[i].attrs = <<>>
ConfiguredAs(i, kinds) ==
    /\ Len(SubjectFields[i].attrs) = 1
    /\ Len(SubjectFields[i].attrs[1].args) = 1
    /\ ConfigKindOf(SubjectFields[i].attrs[1].args[1]) \in kinds
\* field i is one the constructor takes a parameter for
TakesParam(i) == ~IsMarkerField(i) /\ ~ConfiguredAs(i, {"Default", "Value"})
\* the positions of the parameter-taking fields, ascending
RECURSIVE ParamPositions(_)
ParamPositions(n) ==
    IF n = 0 THEN <<>>
    ELSE IF TakesParam(n) THEN Append(ParamPositions(n - 1), n) ELSE ParamPositions(n - 1)

\* ------------------------------------------------------------- C1

\* C1: the constructor's parameter list is exactly the subsequence of the
\* fields that are neither of placeholder-marker type nor configured Default or
\* Value, one parameter per such field, in declaration order.
C1_ParamsAreSubsequence ==
    pc \in {"ctor_generated", "ctor_called"} =>
        /\ ctor.ok
        /\ LET args == Unwrap(ctor.val).args
               pos == ParamPositions(NFields)
           IN  /\ Len(args) = Len(pos)
               /\ \A j \in 1..Len(pos) : args[j].ident = DeclaredIdent(pos[j])

\* a constructor whose middle field is omitted: parameters f0 and f2, in order
C1_Witness ==
    /\ pc = "ctor_generated"
    /\ subject.fields.kind = "Unnamed"
    /\ NFields = 3
    /\ Unconfigured(1) /\ ~IsMarkerField(1)
    /\ ConfiguredAs(2, {"Value"})
    /\ ConfiguredAs(3, {"Into"})
    /\ Len(Unwrap(ctor.val).args) = 2
    /\ Unwrap(ctor.val).args[1].ident = "f0"
    /\ Unwrap(ctor.val).args[2].ident = "f2"

\* ------------------------------------------------------------- C2

\* C2 (as claimed): a product type with N fields and no configuration attributes
\* gets a constructor with exactly N parameters in declaration order, and a call
\* with v0..v(N-1) constructs a value whose fields are exactly v0..v(N-1).
C2_AsClaimed ==
    (/\ pc \in {"ctor_generated", "ctor_called"}
     /\ \A i \in 1..NFields : Unconfigured(i)) =>
        /\ ctor.ok
        /\ Len(Unwrap(ctor.val).args) = NFields
        /\ \A i \in 1..NFields : Unwrap(ctor.val).args[i].ident = DeclaredIdent(i)
        /\ pc = "ctor_called" => calls.r1 = calls.a1 /\ calls.r2 = calls.a2

\* C2 (amended): a product type with N fields, none of placeholder-marker type,
\* and no configuration attributes gets a constructor with exactly N parameters
\* of the declared types in declaration order, and a call with v0..v(N-1)
\* constructs a value whose fields are exactly v0..v(N-1).
C2_RoundTrip ==
    (/\ pc \in {"ctor_generated", "ctor_called"}
     /\ \A i \in 1..NFields : Unconfigured(i) /\ ~IsMarkerField(i)) =>
        /\ ctor.ok
        /\ Len(Unwrap(ctor.val).args) = NFields
        /\ \A i \in 1..NFields :
              Unwrap(ctor.val).args[i] =
                  Arg(DeclaredIdent(i), "Exact", SubjectFields[i].ty, <<>>)
        /\ Len(Unwrap(ctor.val).inits) = NFields
        /\ pc = "ctor_called" => calls.r1 = calls.a1 /\ calls.r2 = calls.a2

\* a named struct of three plain fields was constructed from distinct values
C2_Witness ==
    /\ pc = "ctor_called"
    /\ subject.fields.kind = "Named"
    /\ NFields = 3
    /\ \A i \in 1..3 : Unconfigured(i) /\ ~IsMarkerField(i)
    /\ calls.a1 = <<Val(1), Val(2), Val(1)>>
    /\ calls.r1 = <<Val(1), Val(2), Val(1)>>

\* ------------------------------------------------------------- C5

\* the tokens of the value expression field i is configured with
ValueTokens(i) == Unwrap(lit_str_to_token_stream(SubjectFields[i].attrs[1].args[1].payload).val)
\* the expression names a parameter of the constructor
NamesAParam(i) ==
    \E j \in 1..Len(Unwrap(ctor.val).args) :
        \E k \in 1..Len(ValueTokens(i)) : ValueTokens(i)[k] = Unwrap(ctor.val).args[j].ident

\* C5 (as claimed): a field marked value = "<expr>" takes no parameter, and two
\* calls of the constructor yield the same value in that field whatever the
\* arguments passed for the other fields, for every accepted expression.
C5_AsClaimed ==
    pc = "ctor_called" =>
        \A i \in 1..NFields :
            ConfiguredAs(i, {"Value"}) =>
                /\ \A j \in 1..Len(Unwrap(ctor.val).args) :
                      Unwrap(ctor.val).args[j].ident # DeclaredIdent(i)
                /\ calls.r1[i] = calls.r2[i]

\* C5 (amended): a field marked value = "<expr>" takes no parameter and is
\* initialized to the evaluation of <expr> in the constructor's body; when
\* <expr> names no parameter of the constructor, two calls yield the same value
\* in that field whatever the arguments passed for the other fields.
C5_ValueIndependentUnlessNamed ==
    pc = "ctor_called" =>
        \A i \in 1..NFields :
            ConfiguredAs(i, {"Value"}) =>
                /\ \A j \in 1..Len(Unwrap(ctor.val).args) :
                      Unwrap(ctor.val).args[j].ident # DeclaredIdent(i)
                /\ Unwrap(ctor.val).inits[i].init = Expr("Splice", "", ValueTokens(i))
                /\ ~NamesAParam(i) =>
                      /\ calls.r1[i] = calls.r2[i]
                      /\ ValueTokens(i) = <<"1", "+", "2">> => calls.r1[i] = Val(3)

\* Moog(#[Demo(value = "1 + 2")] i32, i32) called with different arguments:
\* the first field is 3 both times
C5_Witness ==
    /\ pc = "ctor_called"
    /\ subject.fields.kind = "Unnamed"
    /\ NFields = 2
    /\ ConfiguredAs(1, {"Value"})
    /\ ValueTokens(1) = <<"1", "+", "2">>
    /\ Unconfigured(2) /\ ~IsMarkerField(2)
    /\ calls.a1 = <<Val(1)>> /\ calls.a2 = <<Val(2)>>
    /\ calls.r1 = <<Val(3), Val(1)>>
    /\ calls.r2 = <<Val(3), Val(2)>>

\* ------------------------------------------------------------- C3

\* C3: for a field that is not of placeholder-marker type, parameter and
\* initializer follow from the FieldConfig alone: None gives a parameter of the
\* declared type and the parameter as initializer; Default no parameter and the
\* default value; Into an `impl Into<ty>` parameter and its conversion; IntoIter(elem)
\* an `impl IntoIterator<Item = elem>` parameter and the collect of its iterator;
\* Value(expr) no parameter and the spliced expr.  The field has a parameter
\* exactly when its initializer is built from that parameter.  A field with no
\* wrapper has config None, one with a single valid option has that option's config.
C3_ConfigDeterminesDescriptor ==
    (pc = "field_classified" /\ ~IsMarkerType(field.f.ty)) =>
        LET x == Unwrap(fx.val)
            id == IF field.named THEN "x" ELSE "f1"
            arg == desc.arg
            init == desc.init.init
            wr == DemoWrappers(field.f.attrs)
        IN  /\ x.ident = id
            /\ IsNone(x.attr) =>
                  /\ arg = Some(Arg(id, "Exact", field.f.ty, <<>>))
                  /\ init = Expr("Param", id, <<>>)
            /\ IsSome(x.attr) =>
                  LET a == Unwrap(x.attr)
                  IN  /\ a.k = "Default" => arg = None /\ init = Expr("Default", "", <<>>)
                      /\ a.k = "Into" =>
                            /\ arg = Some(Arg(id, "ImplInto", field.f.ty, <<>>))
                            /\ init = Expr("Into", id, <<>>)
                      /\ a.k = "IntoIter" =>
                            /\ arg = Some(Arg(id, "ImplIntoIterator", field.f.ty, a.tokens))
                            /\ init = Expr("Collect", id, <<>>)
                      /\ a.k = "Value" => arg = None /\ init = Expr("Splice", "", a.tokens)
                      /\ a.k \in {"Default", "Into", "IntoIter", "Value"}
            /\ IsSome(arg) <=> (init.k \in {"Param", "Into", "Collect"} /\ init.id = id)
            /\ wr = <<>> => IsNone(x.attr)
            /\ (Len(wr) = 1 /\ Len(wr[1].args) = 1 /\ wr[1].args[1] \in ValidFieldItems) =>
                  /\ IsSome(x.attr)
                  /\ Unwrap(x.attr).k = ConfigKindOf(wr[1].args[1])

\* a tuple field configured into_iter = "bool" has been classified: it takes an
\* `impl IntoIterator<Item = bool>` parameter f1 and collects it
C3_Witness ==
    /\ pc = "field_classified"
    /\ ~field.named
    /\ field.f.ty = TyI32
    /\ field.f.attrs = <<DemoAttr(<<MetaNameValue("into_iter", "Str", "bool")>>)>>
    /\ desc.arg = Some(Arg("f1", "ImplIntoIterator", TyI32, <<"bool">>))
    /\ desc.init.init.k = "Collect"

\* ------------------------------------------------------------- C4

\* C4 (as claimed): for a field of placeholder-marker type, whatever Demo(...)
\* wrappers it carries (none, one, several, with valid or unrecognised
\* content), generation succeeds, the field gets no parameter and its
\* initializer constructs the marker.
C4_MarkerIgnoresAttributes ==
    (/\ pc \in {"field_new", "field_classified"}
     /\ IsMarkerType(field.f.ty)
     /\ \A i \in 1..Len(field.f.attrs) :
           IsDemoWrapper(field.f.attrs[i]) /\ field.f.attrs[i].parses) =>
        /\ fx.ok
        /\ pc = "field_classified" =>
              /\ desc.arg = None
              /\ desc.init.init = Expr("PhantomData", "", <<>>)

\* ------------------------------------------------------------- C6

\* C6 (as claimed): a field not of placeholder-marker type that carries two or
\* more Demo(...) wrappers, whatever their contents (an empty option list
\* included), makes generation fail.  Any fatal error is accepted here, so a
\* violation is a field with two wrappers for which code is generated.
C6_TwoWrappersRejected ==
    (/\ pc \in {"field_new", "field_classified"}
     /\ ~IsMarkerType(field.f.ty)
     /\ Len(DemoWrappers(field.f.attrs)) >= 2) =>
        ~fx.ok

\* ------------------------------------------------------------- Spec (derive)

\* syn::Variant, and syn::Data as [kind, fields (of a struct), variants (of an enum)]
Variant(ident, discriminant, fields) ==
    [ident |-> ident, discriminant |-> discriminant, fields |-> fields]
DataStruct(fields) == [kind |-> "Struct", fields |-> fields, variants |-> <<>>]
DataEnum(variants) == [kind |-> "Enum", fields |-> Fields("Unit", <<>>), variants |-> variants]
DataUnion == [kind |-> "Union", fields |-> Fields("Named", <<>>), variants |-> <<>>]

\* attributes of the subject type: lint directives (plain and under cfg_attr),
\* a cfg_attr that carries no lint, a derive list, a doc comment, and Demo(...)
\* wrappers with well-formed and malformed content
VisEntry(payload) == MetaNameValue("visibility", "Str", payload)
TypeWrappers ==
    {<<VisEntry("pub(crate)")>>, <<VisEntry("")>>, <<VisEntry("pub(crate) x")>>,
     <<MetaPath("foo")>>, <<MetaNameValue("visibility", "Int", "5")>>,
     <<MetaNameValue("visibility", "Expr", "foo")>>, <<MetaList("visibility")>>,
     <<>>, <<VisEntry(""), MetaPath("foo")>>, <<MetaPath("foo"), VisEntry("")>>}
LintAllow == ListAttr(<<"allow">>, <<MetaPath("non_snake_case")>>)
LintDeny == ListAttr(<<"deny">>, <<MetaPath("missing_docs")>>)
CfgAttrLint == ListAttr(<<"cfg_attr">>, <<MetaPath("test"), MetaList("allow")>>)
CfgAttrOther == ListAttr(<<"cfg_attr">>, <<MetaPath("test"), MetaList("derive")>>)
DeriveAttr == ListAttr(<<"derive">>, <<MetaPath("Debug")>>)
DocAttr == [path |-> <<"doc">>, meta |-> "NameValue", args |-> <<>>, parses |-> TRUE]
TypeAttributes ==
    {DemoAttr(w) : w \in TypeWrappers}
      \cup {LintAllow, LintDeny, CfgAttrLint, CfgAttrOther, DeriveAttr, DocAttr}

\* variant names
VariantNames == {<<"A">>, <<"A", "B", "c">>, <<"B", "i", "t", "e", "M", "e">>}

\* field lists of a struct or variant that generation accepts: unit, a tuple of
\* one plain field, a named field with a default, and a marker with a plain field
GoodBodies ==
    {Fields("Unit", <<>>),
     UnnamedFields(<< <<TyI32, <<>> >> >>),
     NamedFields(<< <<TyI32, <<DemoAttr(<<MetaPath("default")>>)>> >> >>),
     NamedFields(<< <<TyPhantom, <<>> >>, <<TyI32, <<>> >> >>)}

\* a tuple of one field whose wrapper holds one malformed option, of each kind
BadBodies ==
    {UnnamedFields(<< <<TyI32, <<DemoAttr(<<i>>)>> >> >>) : i \in InvalidFieldItems}

VariantBodies == GoodBodies \cup BadBodies

\* variants: every name with every accepted body and with a discriminant, and
\* one name with every malformed body
Variants ==
    {Variant(n, FALSE, b) : n \in VariantNames, b \in GoodBodies}
      \cup {Variant(<<"A">>, FALSE, b) : b \in BadBodies}
      \cup {Variant(n, TRUE, Fields("Unit", <<>>)) : n \in VariantNames}

\* declarations with any attributes and one of a few bodies, and declarations
\* with any body and one of a few attribute lists
PlainDatas ==
    {DataStruct(Fields("Unit", <<>>)),
     DataEnum(<<Variant(<<"A">>, FALSE, Fields("Unit", <<>>)),
                Variant(<<"B", "i", "t", "e", "M", "e">>, FALSE,
                        UnnamedFields(<< <<TyI32, <<>> >> >>))>>)}
PlainAttrLists == {<<>>, <<DemoAttr(<<VisEntry("pub(crate)")>>)>>, <<LintAllow>>}
Datas ==
    {DataStruct(b) : b \in VariantBodies} \cup {DataUnion}
      \cup {DataEnum(vs) : vs \in SeqsUpTo(Variants, MaxVariants)}
DeriveInputs ==
    {[ident |-> "T", attrs |-> a, data |-> d] :
        a \in SeqsUpTo(TypeAttributes, MaxTypeAttrs), d \in PlainDatas}
      \cup
    {[ident |-> "T", attrs |-> a, data |-> d] : a \in PlainAttrLists, d \in Datas}

Init ==
    /\ pc = "derive"
    /\ ast \in DeriveInputs
    /\ options = <<>>
    /\ vi = 0
    /\ impls = <<>>
    /\ output = <<>>
    /\ SnakeIdle /\ FieldIdle /\ CtorIdle /\ LintIdle

\* a panic unwinds derive: nothing is returned
Abort(msg) ==
    /\ pc' = "panicked"
    /\ output' = Panic(msg)
    /\ impls' = <<>>

\* let options = DemoOptions::from_attributes(&ast.attrs);
ParseOptions ==
    /\ pc = "derive"
    /\ LET r == DemoOptions_from_attributes(ast.attrs)
       IN  IF r.ok
           THEN /\ options' = Unwrap(r.val)
                /\ pc' = "match_data"
                /\ UNCHANGED <<impls, output>>
           ELSE /\ Abort(r.err)
                /\ UNCHANGED options
    /\ UNCHANGED <<ast, vi, snakeVars, fieldVars, ctorVars, lintVars>>

\* the struct arm's value r becomes derive's result, or its panic unwinds
StructResult(r) ==
    IF r.ok
    THEN /\ impls' = <<Unwrap(r.val)>>
         /\ pc' = "result"
         /\ UNCHANGED output
    ELSE Abort(r.err)

\* syn::Data::Struct(ref s) => demo_for_struct(&ast, &s.fields, None, &options)
DeriveStruct ==
    /\ pc = "match_data"
    /\ ast.data.kind = "Struct"
    /\ StructResult(demo_for_struct(ast.ident, ast.attrs, ast.data.fields, None, options))
    /\ UNCHANGED <<ast, options, vi, snakeVars, fieldVars, ctorVars, lintVars>>

\* syn::Data::Union(_) => panic!
DeriveUnion ==
    /\ pc = "match_data"
    /\ ast.data.kind = "Union"
    /\ Abort("doesn't work with unions yet")
    /\ UNCHANGED <<ast, options, vi, snakeVars, fieldVars, ctorVars, lintVars>>

\* syn::Data::Enum(ref e) => demo_for_enum: the check for zero variants
DeriveEnum ==
    /\ pc = "match_data"
    /\ ast.data.kind = "Enum"
    /\ IF ast.data.variants = <<>>
       THEN /\ Abort("#[derive(Demo)] cannot be implemented for enums with zero variants")
            /\ UNCHANGED vi
       ELSE /\ pc' = "variants"
            /\ vi' = 1
            /\ UNCHANGED <<impls, output>>
    /\ UNCHANGED <<ast, options, snakeVars, fieldVars, ctorVars, lintVars>>

\* the closure's value r joins the impls quoted so far, and a panic only skips
\* the variant
VariantResult_SkipsFailed(r) ==
    /\ impls' = IF r.ok THEN Append(impls, Unwrap(r.val)) ELSE impls
    /\ vi' = vi + 1
    /\ UNCHANGED <<pc, output>>

\* the closure's value r joins the impls quoted so far, or its panic unwinds
VariantResult(r) ==
    IF r.ok
    THEN /\ impls' = Append(impls, Unwrap(r.val))
         /\ vi' = vi + 1
         /\ UNCHANGED <<pc, output>>
    ELSE /\ Abort(r.err)
         /\ UNCHANGED vi

\* the closure of demo_for_enum's map, on the next variant
EnumVariant ==
    /\ pc = "variants"
    /\ vi <= Len(ast.data.variants)
    /\ LET v == ast.data.variants[vi]
       IN  IF v.discriminant
           THEN /\ Abort("#[derive(Demo)] cannot be implemented for enums with discriminants")
                /\ UNCHANGED vi
           ELSE VariantResult(demo_for_struct(ast.ident, ast.attrs, v.fields,
                                              Some(v.ident), options))
    /\ UNCHANGED <<ast, options, snakeVars, fieldVars, ctorVars, lintVars>>

\* my_quote!(#(#impls)*) once the variants are exhausted
EnumQuote ==
    /\ pc = "variants"
    /\ vi > Len(ast.data.variants)
    /\ pc' = "result"
    /\ UNCHANGED <<ast, options, vi, impls, output, snakeVars, fieldVars, ctorVars, lintVars>>

\* result.into()
Return ==
    /\ pc = "result"
    /\ output' = Ok(impls)
    /\ pc' = "done"
    /\ UNCHANGED <<ast, options, vi, impls, snakeVars, fieldVars, ctorVars, lintVars>>

Next ==
    \/ ParseOptions
    \/ DeriveStruct
    \/ DeriveUnion
    \/ DeriveEnum
    \/ EnumVariant
    \/ EnumQuote
    \/ Return

Spec == Init /\ [][Next]_vars

\* the constructors derive returned
Emitted == Unwrap(output.val)

\* the Demo(...) wrappers among the subject type's attributes
TypeWrappersOf(attrs) == SelectSeq(attrs, IsDemoWrapper)
\* the visibility strings the type's wrappers spell out
GivenOverrides(attrs) ==
    UNION {{attrs[i].args[j].payload :
              j \in {k \in 1..Len(attrs[i].args) :
                       /\ attrs[i].args[k].m = "NameValue"
                       /\ attrs[i].args[k].id = "visibility"
                       /\ attrs[i].args[k].lit = "Str"}} :
           i \in {k \in 1..Len(attrs) : IsDemoWrapper(attrs[k])}}

\* ------------------------------------------------------------- C7

\* C7 (as claimed): when the subject type carries more than one Demo(...)
\* wrapper, or a wrapper holding anything other than visibility = <string
\* literal>, generation aborts and no constructor is emitted.
C7_TypeConfigNeverDefaulted ==
    (/\ pc \in {"done", "panicked"}
     /\ LET wr == TypeWrappersOf(ast.attrs)
        IN  \/ Len(wr) > 1
            \/ \E i \in 1..Len(wr) : \E j \in 1..Len(wr[i].args) :
                  ~(/\ wr[i].args[j].m = "NameValue"
                    /\ wr[i].args[j].id = "visibility"
                    /\ wr[i].args[j].lit = "Str")) =>
        ~output.ok

\* ------------------------------------------------------------- C8

\* C8: one constructor is emitted per variant, in declaration order: a struct
\* yields one function named "demo"; an enum of k >= 1 variants yields k
\* functions, the i-th named "demo_" and the case-converted name of the i-th
\* variant, constructing that variant.
C8_OneConstructorPerVariant ==
    pc = "done" =>
        /\ ast.data.kind = "Struct" =>
              /\ Len(Emitted) = 1
              /\ Emitted[1].demo = <<"d", "e", "m", "o">>
              /\ Emitted[1].qual = None
              /\ Emitted[1].ty = ast.ident
        /\ ast.data.kind = "Enum" =>
              /\ Len(ast.data.variants) >= 1
              /\ Len(Emitted) = Len(ast.data.variants)
              /\ \A i \in 1..Len(Emitted) :
                    /\ Emitted[i].demo =
                          <<"d", "e", "m", "o", "_">> \o SnakeByRule(ast.data.variants[i].ident)
                    /\ Emitted[i].qual = Some(ast.data.variants[i].ident)
                    /\ Emitted[i].ty = ast.ident
        /\ ast.data.kind \in {"Struct", "Enum"}

\* enum T { ABc(i32), BiteMe } has yielded demo_a_bc and demo_bite_me, in order
C8_Witness ==
    /\ pc = "done"
    /\ ast.data.kind = "Enum"
    /\ Len(ast.data.variants) = 2
    /\ ast.data.variants[1].ident = <<"A", "B", "c">>
    /\ ast.data.variants[2].ident = <<"B", "i", "t", "e", "M", "e">>
    /\ Emitted[1].demo = <<"d", "e", "m", "o", "_", "a", "_", "b", "c">>
    /\ Emitted[2].demo = <<"d", "e", "m", "o", "_", "b", "i", "t", "e", "_", "m", "e">>

\* ------------------------------------------------------------- C10

\* C10 (as claimed): every generated constructor has the visibility the type's
\* override gives when one is given (one of them, when several are), and is
\* public when none is given; an empty-string override yields no qualifier; all
\* constructors of an enum have the same visibility.
C10_VisibilityFollowsOverride ==
    pc = "done" =>
        \A i \in 1..Len(Emitted) :
            LET given == GivenOverrides(ast.attrs)
                vis == Emitted[i].visibility
            IN  /\ given = {} => vis = Some("pub")
                /\ given # {} =>
                      \E g \in given :
                          vis = Some(IF g = "" THEN "inherited" ELSE g)
                /\ vis = Emitted[1].visibility

\* ------------------------------------------------------------- SpecLint

\* attributes of a subject type, for the lint filter: the four directives, a
\* directive with no lint name, a directive word that is no list (#[allow]) or
\* sits under a longer path, cfg_attr wrappers with a directive as second
\* argument (alone, or followed by a third argument), with another attribute as
\* second argument, with a directive only as third argument, with one argument,
\* and with arguments that are no meta list; a derive list, a doc comment, a
\* Demo wrapper and a marker
LintForbid == ListAttr(<<"forbid">>, <<MetaPath("unsafe_code")>>)
LintWarn == ListAttr(<<"warn">>, <<MetaPath("missing_docs")>>)
LintEmpty == ListAttr(<<"allow">>, <<>>)
CfgAttrLintThen == ListAttr(<<"cfg_attr">>, <<MetaPath("test"), MetaList("allow"), MetaList("deny")>>)
CfgAttrThenLint == ListAttr(<<"cfg_attr">>, <<MetaPath("test"), MetaList("derive"), MetaList("allow")>>)
CfgAttrAlone == ListAttr(<<"cfg_attr">>, <<MetaPath("test")>>)
LintAttributes ==
    {LintAllow, LintDeny, LintForbid, LintWarn, LintEmpty,
     PathAttr(<<"allow">>), ListAttr(<<"foo", "allow">>, <<MetaPath("missing_docs")>>),
     CfgAttrLint, CfgAttrLintThen, CfgAttrOther, CfgAttrThenLint, CfgAttrAlone,
     BadListAttr(<<"cfg_attr">>),
     DeriveAttr, DocAttr, DemoAttr(<<>>), PathAttr(<<"inline">>)}

LintInputs == SeqsUpTo(LintAttributes, MaxTypeAttrs)

InitLint ==
    /\ pc = "lint_input"
    /\ parent_attrs \in LintInputs
    /\ parent_lints = <<>>
    /\ SnakeIdle /\ FieldIdle /\ CtorIdle /\ DeriveIdle

\* let lint_attrs = collect_parent_lint_attrs(&ast.attrs);
CollectLints ==
    /\ pc = "lint_input"
    /\ parent_lints' = collect_parent_lint_attrs(parent_attrs)
    /\ pc' = "lint_done"
    /\ UNCHANGED <<parent_attrs, snakeVars, fieldVars, ctorVars, deriveVars>>

NextLint == CollectLints

SpecLint == InitLint /\ [][NextLint]_vars

\* ------------------------------------------------------------- C11

\* a direct directive: a list-form attribute whose path is the single word
\* allow, deny, forbid or warn
IsDirective(attr) ==
    /\ attr.meta = "List"
    /\ attr.path \in {<<"allow">>, <<"deny">>, <<"forbid">>, <<"warn">>}

\* a nested meta that is one of the four directives
IsNestedDirective(item) ==
    item.m = "List" /\ item.id \in {"allow", "deny", "forbid", "warn"}

\* a cfg_attr wrapper whose second argument is a directive
WrapsDirective(attr) ==
    /\ attr.meta = "List"
    /\ attr.path = <<"cfg_attr">>
    /\ attr.parses
    /\ Len(attr.args) >= 2
    /\ IsNestedDirective(attr.args[2])

\* a is b with some elements left out
RECURSIVE IsSubsequence(_, _)
IsSubsequence(a, b) ==
    IF a = <<>> THEN TRUE
    ELSE IF b = <<>> THEN FALSE
    ELSE IF Head(a) = Head(b) THEN IsSubsequence(Tail(a), Tail(b))
    ELSE IsSubsequence(a, Tail(b))

\* how often x occurs in q
Occurrences(q, x) == Cardinality({i \in 1..Len(q) : q[i] = x})

\* C11 (as claimed): the lint propagator keeps exactly the attributes that are
\* a direct directive or a cfg_attr wrapper whose second argument is a
\* directive, in their input order.
C11_AsClaimed ==
    pc = "lint_done" =>
        parent_lints =
            SelectSeq(parent_attrs, LAMBDA a : IsDirective(a) \/ WrapsDirective(a))

\* C11: the lint propagator keeps exactly the attributes that are a direct
\* directive, or a cfg_attr wrapper of exactly two arguments whose second
\* argument is a directive; every other attribute (doc comment, derive list,
\* Demo wrapper, marker, cfg_attr of any other form) is left out, a kept
\* attribute is unaltered and occurs as often as in the input, and the kept
\* attributes are in their input order.
C11_LintFilter ==
    pc = "lint_done" =>
        LET keep(a) == IsDirective(a) \/ (WrapsDirective(a) /\ Len(a.args) = 2)
        IN  /\ \A i \in 1..Len(parent_lints) : keep(parent_lints[i])
            /\ \A i \in 1..Len(parent_attrs) :
                  Occurrences(parent_lints, parent_attrs[i]) =
                      IF keep(parent_attrs[i])
                      THEN Occurrences(parent_attrs, parent_attrs[i])
                      ELSE 0
            /\ IsSubsequence(parent_lints, parent_attrs)

\* #[cfg_attr(test, allow(..))] #[deny(..)] has been filtered: both are kept, in
\* that order
C11_Witness ==
    /\ pc = "lint_done"
    /\ parent_attrs = <<CfgAttrLint, LintDeny>>
    /\ parent_lints = <<CfgAttrLint, LintDeny>>

\* ------------------------------------------------------------- C12

\* an option of a field's wrapper that is no valid option: an unknown marker,
\* an unknown key, a list-valued entry, a value that is no string literal, a
\* string that does not lex
IsBadItem(item) ==
    \/ item.m = "Path" /\ item.id \notin {"default", "into"}
    \/ item.m = "NameValue" /\ item.id \notin {"into_iter", "value"}
    \/ item.m = "List"
    \/ item.m = "NameValue" /\ item.lit # "Str"
    \/ item.m = "NameValue" /\ item.lit = "Str" /\ ~lit_str_to_token_stream(item.payload).ok

\* a field that is no placeholder marker and carries a wrapper with such an option
IsBadField(f) ==
    /\ ~IsMarkerType(f.ty)
    /\ \E i \in 1..Len(f.attrs) :
          /\ IsDemoWrapper(f.attrs[i])
          /\ \E j \in 1..Len(f.attrs[i].args) : IsBadItem(f.attrs[i].args[j])

HasBadField(fields) == \E i \in 1..Len(fields.fields) : IsBadField(fields.fields[i])

\* the variants that make generation fail, by position
OffendingVariants ==
    {i \in 1..Len(ast.data.variants) :
        ast.data.variants[i].discriminant \/ HasBadField(ast.data.variants[i].fields)}

\* the declaration holds one of the fatal errors of the claim
IsFatalDeclaration ==
    \/ ast.data.kind = "Union"
    \/ ast.data.kind = "Enum" /\ ast.data.variants = <<>>
    \/ ast.data.kind = "Enum" /\ OffendingVariants # {}
    \/ ast.data.kind = "Struct" /\ HasBadField(ast.data.fields)

UnionMessage == "doesn't work with unions yet"
ZeroVariantsMessage == "#[derive(Demo)] cannot be implemented for enums with zero variants"
DiscriminantMessage == "#[derive(Demo)] cannot be implemented for enums with discriminants"

\* C12: a union, an enum with zero variants, a variant with a discriminant, or
\* a non-marker field whose wrapper holds a malformed option makes generation
\* abort: derive never returns, and no constructor is emitted, those of valid
\* variants declared before the offending one included.  The error reported is
\* the first in declaration order: the union's or the empty enum's, else that
\* of the first offending variant (its discriminant's, or one of its fields').
C12_AllOrNothing ==
    (pc \in {"done", "panicked"} /\ IsFatalDeclaration) =>
        /\ pc = "panicked"
        /\ ~output.ok
        /\ impls = <<>>
        /\ DemoOptions_from_attributes(ast.attrs).ok =>
              /\ ast.data.kind = "Union" => output.err = UnionMessage
              /\ (ast.data.kind = "Enum" /\ ast.data.variants = <<>>) =>
                    output.err = ZeroVariantsMessage
              /\ (ast.data.kind = "Enum" /\ OffendingVariants # {}) =>
                    LET first == CHOOSE i \in OffendingVariants :
                                     \A j \in OffendingVariants : i <= j
                    IN  IF ast.data.variants[first].discriminant
                        THEN output.err = DiscriminantMessage
                        ELSE output.err \notin
                                 {UnionMessage, ZeroVariantsMessage, DiscriminantMessage}
              /\ ast.data.kind = "Struct" =>
                    output.err \notin {UnionMessage, ZeroVariantsMessage, DiscriminantMessage}

\* enum T { BiteMe, A(#[Demo(value = 5)] i32) } has aborted on its second
\* variant, and the constructor of the first is not emitted
C12_Witness ==
    /\ pc = "panicked"
    /\ ast.data.kind = "Enum"
    /\ Len(ast.data.variants) = 2
    /\ ast.data.variants[1] = Variant(<<"B", "i", "t", "e", "M", "e">>, FALSE, Fields("Unit", <<>>))
    /\ ast.data.variants[2] =
          Variant(<<"A">>, FALSE,
                  UnnamedFields(<< <<TyI32, <<DemoAttr(<<MetaNameValue("value", "Int", "5")>>)>> >> >>))
    /\ output = Panic("Non-string literal value in #[Demo] attribute")
    /\ impls = <<>>

\* ------------------------------------------------------------- C13

\* C13 (as claimed): every generated constructor carries, between its doc
\* attribute and its visibility, exactly the lint directives the propagator
\* recognises among the subject type's attributes, in their original order, and
\* no other token, for any number of directives (two or more included).
C13_LintDirectivesEmitted ==
    pc = "done" =>
        \A i \in 1..Len(Emitted) :
            Emitted[i].lint_attrs = collect_parent_lint_attrs(ast.attrs)

\* ------------------------------------------------------------- C14

\* the initializer the declaration of field i calls for, under the name id
ExpectedInit(i, id) ==
    IF IsMarkerField(i) THEN Expr("PhantomData", "", <<>>)
    ELSE IF Unconfigured(i) THEN Expr("Param", id, <<>>)
    ELSE IF ConfiguredAs(i, {"Default"}) THEN Expr("Default", "", <<>>)
    ELSE IF ConfiguredAs(i, {"Into"}) THEN Expr("Into", id, <<>>)
    ELSE IF ConfiguredAs(i, {"IntoIter"}) THEN Expr("Collect", id, <<>>)
    ELSE Expr("Splice", "", lit_str_to_token_stream(SubjectFields[i].attrs[1].args[1].payload).val[1])

\* the name of positional field i: its index among all fields, from 0
PositionalName(i) == "f" \o ToString(i - 1)

\* C14: the construction expression follows the shape alone: no delimiters for a
\* unit shape, parentheses for a positional one, braces for a named one, also
\* when there are zero fields; it holds exactly one initializer per declared
\* field, in declaration order, labelled with the declared identifier in a named
\* shape and unlabelled in a positional one.  A positional field is named by
\* its index among all fields, so the names of the parameters are distinct.
C14_ConstructionFollowsShape ==
    pc \in {"ctor_generated", "ctor_called"} =>
        LET impl == Unwrap(ctor.val)
            kind == subject.fields.kind
        IN  /\ ctor.ok
            /\ impl.delim = (CASE kind = "Unit" -> "None"
                               [] kind = "Unnamed" -> "Paren"
                               [] kind = "Named" -> "Brace")
            /\ Len(impl.inits) = NFields
            /\ \A i \in 1..NFields :
                  /\ kind = "Named" =>
                        /\ impl.inits[i].label = Some(FieldNames[i])
                        /\ impl.inits[i].init = ExpectedInit(i, FieldNames[i])
                  /\ kind = "Unnamed" =>
                        /\ impl.inits[i].label = None
                        /\ impl.inits[i].init = ExpectedInit(i, PositionalName(i))
            /\ kind = "Unnamed" =>
                  \A j \in 1..Len(impl.args) :
                      impl.args[j].ident = PositionalName(ParamPositions(NFields)[j])
            /\ \A j, k \in 1..Len(impl.args) :
                  j # k => impl.args[j].ident # impl.args[k].ident

\* struct S(#[Demo(default)] i32, i32) has been generated: two initializers in
\* parentheses, the second the parameter f1, the only parameter
C14_Witness ==
    /\ pc = "ctor_generated"
    /\ subject.fields.kind = "Unnamed"
    /\ NFields = 2
    /\ ConfiguredAs(1, {"Default"})
    /\ Unconfigured(2) /\ ~IsMarkerField(2)
    /\ Unwrap(ctor.val).delim = "Paren"
    /\ Unwrap(ctor.val).inits =
          <<[label |-> None, init |-> Expr("Default", "", <<>>)],
            [label |-> None, init |-> Expr("Param", "f1", <<>>)]>>
    /\ Len(Unwrap(ctor.val).args) = 1
    /\ Unwrap(ctor.val).args[1].ident = "f1"

\* ------------------------------------------------------------- C15

\* the attributes of the field that are named Demo
NamedDemo(attrs) == SelectSeq(attrs, LAMBDA a : Last(a.path) = "Demo")

\* the field under classification is no placeholder marker and carries exactly
\* one Demo attribute, a wrapper listing two or more options, each valid
ListsSeveralValidOptions ==
    /\ ~IsMarkerType(field.f.ty)
    /\ Len(NamedDemo(field.f.attrs)) = 1
    /\ IsDemoWrapper(NamedDemo(field.f.attrs)[1])
    /\ NamedDemo(field.f.attrs)[1].parses
    /\ Len(NamedDemo(field.f.attrs)[1].args) >= 2
    /\ \A j \in 1..Len(NamedDemo(field.f.attrs)[1].args) :
          NamedDemo(field.f.attrs)[1].args[j] \in ValidFieldItems

\* the option listed last
LastOption == Last(NamedDemo(field.f.attrs)[1].args)

\* the same field with a wrapper listing the last option alone
FieldWithLastOnly ==
    Unwrap(FieldExt_new(Field(field.f.ident, field.f.ty, <<DemoAttr(<<LastOption>>)>>),
                        field.idx, field.named).val)

\* C15: a wrapper that lists several valid options raises no error and
\* configures the field as its last option does: the FieldConfig is that of the
\* last option (one of Default, Into, IntoIter, Value), and parameter and
\* initializer are those of a wrapper listing the last option alone.
C15_LastOptionWins ==
    (pc \in {"field_new", "field_classified"} /\ ListsSeveralValidOptions) =>
        /\ fx.ok
        /\ IsSome(Unwrap(fx.val).attr)
        /\ Unwrap(Unwrap(fx.val).attr).k = ConfigKindOf(LastOption)
        /\ Unwrap(Unwrap(fx.val).attr).k \in {"Default", "Into", "IntoIter", "Value"}
        /\ Unwrap(fx.val) = FieldWithLastOnly
        /\ pc = "field_classified" =>
              /\ desc.arg = FieldExt_as_arg(FieldWithLastOnly)
              /\ desc.init = FieldExt_as_init(FieldWithLastOnly)

\* #[Demo(value = "1 + 2", default)] x: i32 has been classified: no parameter,
\* and the default value as initializer
C15_Witness ==
    /\ pc = "field_classified"
    /\ field.named
    /\ field.f.ty = TyI32
    /\ field.f.attrs = <<DemoAttr(<<MetaNameValue("value", "Str", "1 + 2"), MetaPath("default")>>)>>
    /\ Unwrap(Unwrap(fx.val).attr) = FieldAttrDefault
    /\ desc.arg = None
    /\ desc.init.init = Expr("Default", "", <<>>)

====
